---------------------------- MODULE Spec2Model ----------------------------
(***************************************************************************)
(* A model of pynput's macOS keyboard backend                              *)
(* (lib/pynput/keyboard/_darwin.py): the Key enumeration, the encoder      *)
(* KeyCode._event, the decoder Listener._event_to_key, the dispatcher      *)
(* Listener._handle and Controller._handle.                                *)
(*                                                                         *)
(* Python values are represented as follows.                               *)
(*   None            the model value NoVk for a virtual key, NoChar for a  *)
(*                   character, "None" for the _is_media extension         *)
(*   KeyCode         [vk, char, is_media]                                  *)
(*   a resolved key  [tag, name, vk, char, is_media], tag "None" (Python   *)
(*                   None), "Key" (a member of the Key enum, name is the   *)
(*                   member's name) or "KeyCode" (a plain KeyCode)         *)
(*   a native event  [type, vk, flags, subtype, data1, chars, bad]; bad    *)
(*                   says that converting the event raises IndexError      *)
(*   event flags     the integer bit mask Quartz uses                      *)
(***************************************************************************)
EXTENDS Integers, Sequences, FiniteSets, TLC

(***************************************************************************)
(* Constants of the platform and of the module.                            *)
(***************************************************************************)
NX_KEYTYPE_PLAY == 16
NX_KEYTYPE_MUTE == 7
NX_KEYTYPE_SOUND_DOWN == 1
NX_KEYTYPE_SOUND_UP == 0
NX_KEYTYPE_NEXT == 17
NX_KEYTYPE_PREVIOUS == 18
kSystemDefinedEventMediaKeysSubtype == 8

\* Quartz event types (CGEventTypes.h); NSEventTypeFlagsChanged and
\* NSEventTypeSystemDefined are the same numbers as kCGEventFlagsChanged and
\* NSSystemDefined.
kCGEventKeyDown == 10
kCGEventKeyUp == 11
kCGEventFlagsChanged == 12
NSSystemDefined == 14

\* Quartz event flag masks (CGEventTypes.h): bits 17, 18, 19, 20 and 23.
kCGEventFlagMaskShift == 131072
kCGEventFlagMaskControl == 262144
kCGEventFlagMaskAlternate == 524288
kCGEventFlagMaskCommand == 1048576
kCGEventFlagMaskSecondaryFn == 8388608

\* The two bits the caps lock detection reads: 1 << 8 and 1 << 16.
Bit8 == 256
Bit16 == 65536

\* The press and release tags of a media key payload.
PressTag == 10
ReleaseTag == 11

\* Python's None for a virtual key and for a character.
NoVk == 0 - 1
NoChar == "<None>"

(***************************************************************************)
(* Integer bit operations on non-negative masks.                           *)
(***************************************************************************)
\* flags & mask, for a mask of one bit: non-zero iff the bit is set.
HasBit(flags, mask) == (flags \div mask) % 2 = 1

\* a | b for one-bit masks b: the bit is added unless it is there.
OrBit(flags, mask) == IF HasBit(flags, mask) THEN flags ELSE flags + mask

RECURSIVE SumSet(_)
SumSet(S) == IF S = {} THEN 0
             ELSE LET x == CHOOSE y \in S : TRUE IN x + SumSet(S \ {x})

\* Every value that has its bits among the one-bit masks of S.
MasksOver(S) == { SumSet(T) : T \in SUBSET S }

(***************************************************************************)
(* KeyCode and the Key enumeration.                                        *)
(***************************************************************************)
\* KeyCode.from_vk(vk)
from_vk(vk) == [vk |-> vk, char |-> NoChar, is_media |-> "None"]

\* KeyCode.from_vk(vk, char=c), as Key.space is built
from_vk_char(vk, c) == [vk |-> vk, char |-> c, is_media |-> "None"]

\* KeyCode.from_char(c, vk=vk)
from_char(c, vk) == [vk |-> vk, char |-> c, is_media |-> "None"]

\* KeyCode._from_media(vk)
_from_media(vk) == [vk |-> vk, char |-> NoChar, is_media |-> "True"]

\* KeyCode.__eq__ of the base class: by character when both have one, by
\* virtual key otherwise; the platform extension is not compared.
KeyCodeEq(a, b) ==
    IF a.char # NoChar /\ b.char # NoChar THEN a.char = b.char
    ELSE a.vk = b.vk

\* The class body of Key, in definition order: <<name, value>>.
KeyDefs == <<
    <<"alt", from_vk(58)>>,
    <<"alt_l", from_vk(58)>>,
    <<"alt_r", from_vk(61)>>,
    <<"alt_gr", from_vk(61)>>,
    <<"backspace", from_vk(51)>>,
    <<"caps_lock", from_vk(57)>>,
    <<"cmd", from_vk(55)>>,
    <<"cmd_l", from_vk(55)>>,
    <<"cmd_r", from_vk(54)>>,
    <<"ctrl", from_vk(59)>>,
    <<"ctrl_l", from_vk(59)>>,
    <<"ctrl_r", from_vk(62)>>,
    <<"delete", from_vk(117)>>,
    <<"down", from_vk(125)>>,
    <<"end", from_vk(119)>>,
    <<"enter", from_vk(36)>>,
    <<"esc", from_vk(53)>>,
    <<"f1", from_vk(122)>>,
    <<"f2", from_vk(120)>>,
    <<"f3", from_vk(99)>>,
    <<"f4", from_vk(118)>>,
    <<"f5", from_vk(96)>>,
    <<"f6", from_vk(97)>>,
    <<"f7", from_vk(98)>>,
    <<"f8", from_vk(100)>>,
    <<"f9", from_vk(101)>>,
    <<"f10", from_vk(109)>>,
    <<"f11", from_vk(103)>>,
    <<"f12", from_vk(111)>>,
    <<"f13", from_vk(105)>>,
    <<"f14", from_vk(107)>>,
    <<"f15", from_vk(113)>>,
    <<"f16", from_vk(106)>>,
    <<"f17", from_vk(64)>>,
    <<"f18", from_vk(79)>>,
    <<"f19", from_vk(80)>>,
    <<"f20", from_vk(90)>>,
    <<"home", from_vk(115)>>,
    <<"left", from_vk(123)>>,
    <<"page_down", from_vk(121)>>,
    <<"page_up", from_vk(116)>>,
    <<"right", from_vk(124)>>,
    <<"shift", from_vk(56)>>,
    <<"shift_l", from_vk(56)>>,
    <<"shift_r", from_vk(60)>>,
    <<"space", from_vk_char(49, " ")>>,
    <<"tab", from_vk(48)>>,
    <<"up", from_vk(126)>>,
    <<"fn", from_vk(63)>>,
    <<"media_play_pause", _from_media(NX_KEYTYPE_PLAY)>>,
    <<"media_volume_mute", _from_media(NX_KEYTYPE_MUTE)>>,
    <<"media_volume_down", _from_media(NX_KEYTYPE_SOUND_DOWN)>>,
    <<"media_volume_up", _from_media(NX_KEYTYPE_SOUND_UP)>>,
    <<"media_previous", _from_media(NX_KEYTYPE_PREVIOUS)>>,
    <<"media_next", _from_media(NX_KEYTYPE_NEXT)>> >>

\* The resolved key that is the enum member defined at index i of defs.
MemberAt(defs, i) ==
    [tag |-> "Key", name |-> defs[i][1], vk |-> defs[i][2].vk,
     char |-> defs[i][2].char, is_media |-> defs[i][2].is_media]

\* enum.Enum: a name whose value equals (==) the value of a member defined
\* before it becomes an alias of that member.  The result maps the index of
\* every name to the index of the member the name denotes.
RECURSIVE EnumBuild(_, _, _)
EnumBuild(defs, i, acc) ==
    IF i > Len(defs) THEN acc
    ELSE LET same == { j \in 1..(i - 1) :
                         acc[j] = j /\ KeyCodeEq(defs[j][2], defs[i][2]) }
             first == IF same = {} THEN i
                      ELSE CHOOSE j \in same : \A k \in same : j <= k
         IN  EnumBuild(defs, i + 1, Append(acc, first))

\* The enum class of a class body: every name, aliases too, to its member.
EnumClass(defs, canon) ==
    [ n \in { defs[i][1] : i \in DOMAIN defs } |->
        MemberAt(defs, canon[CHOOSE i \in DOMAIN defs : defs[i][1] = n]) ]

\* iter() of an enum class: the members in definition order, no aliases.
EnumIter(defs, canon) ==
    LET idx == { i \in DOMAIN defs : canon[i] = i }
        Nth[n \in 1..Cardinality(idx)] ==
            CHOOSE i \in idx : Cardinality({ j \in idx : j <= i }) = n
    IN  [ n \in 1..Cardinality(idx) |-> MemberAt(defs, Nth[n]) ]

\* class Key(enum.Enum): Key[name] is the member Key.<name>.
Key == EnumClass(KeyDefs, EnumBuild(KeyDefs, 1, << >>))

\* for key in Key
KeyMembers == EnumIter(KeyDefs, EnumBuild(KeyDefs, 1, << >>))

\* key.value of a member
ValueOf(key) == [vk |-> key.vk, char |-> key.char, is_media |-> key.is_media]

NoneKey == [tag |-> "None", name |-> "", vk |-> NoVk, char |-> NoChar,
            is_media |-> "None"]

\* A KeyCode as a resolved key.
AsKey(kc) == [tag |-> "KeyCode", name |-> "", vk |-> kc.vk, char |-> kc.char,
              is_media |-> kc.is_media]

\* key == member, key in a dict or set of members: enum members compare by
\* identity; a KeyCode is never equal to an enum member, nor is None.
SameMember(key, member) == key.tag = "Key" /\ key.name = member.name

(***************************************************************************)
(* The tables of the listener.                                             *)
(***************************************************************************)
\* A dict built from a sequence of <<key, value>> items: a later item with
\* an equal key replaces an earlier one.
DictOf(items) ==
    [ k \in { items[i][1] : i \in DOMAIN items } |->
        LET hits == { i \in DOMAIN items : items[i][1] = k }
        IN  items[CHOOSE i \in hits : \A j \in hits : j <= i][2] ]

\* SpecialKeysOf as it would be if the media flag were left out of the key.
SpecialKeysOfVkOnly(members) ==
    DictOf([ n \in DOMAIN members |->
               << <<members[n].vk, "None">>, members[n] >> ])

\* {(key.value.vk, key.value._is_media): key for key in Key}
SpecialKeysOf(members) ==
    DictOf([ n \in DOMAIN members |->
               << <<members[n].vk, members[n].is_media>>, members[n] >> ])

\* Listener._SPECIAL_KEYS
_SPECIAL_KEYS == SpecialKeysOf(KeyMembers)

\* The dict display of a modifier table keyed by the members of an enum
\* class, as a dict keyed by member name.
ModifierDict(items, class) ==
    DictOf([ n \in DOMAIN items |-> <<class[items[n][1]].name, items[n][2]>> ])

\* Listener._MODIFIER_FLAGS
_MODIFIER_FLAGS == ModifierDict(<<
    <<"alt", kCGEventFlagMaskAlternate>>,
    <<"alt_l", kCGEventFlagMaskAlternate>>,
    <<"alt_r", kCGEventFlagMaskAlternate>>,
    <<"cmd", kCGEventFlagMaskCommand>>,
    <<"cmd_l", kCGEventFlagMaskCommand>>,
    <<"cmd_r", kCGEventFlagMaskCommand>>,
    <<"ctrl", kCGEventFlagMaskControl>>,
    <<"ctrl_l", kCGEventFlagMaskControl>>,
    <<"ctrl_r", kCGEventFlagMaskControl>>,
    <<"shift", kCGEventFlagMaskShift>>,
    <<"shift_l", kCGEventFlagMaskShift>>,
    <<"shift_r", kCGEventFlagMaskShift>>,
    <<"fn", kCGEventFlagMaskSecondaryFn>> >>, Key)

\* key in table, for a table keyed by member name
InMemberDict(key, table) == key.tag = "Key" /\ key.name \in DOMAIN table

\* pynput._util.darwin_vks.SYMBOLS, the entries the model uses: the virtual
\* keys of the ANSI letters a, s, c and b.
SYMBOLS == (0 :> "a") @@ (1 :> "s") @@ (8 :> "c") @@ (11 :> "b")

\* str.isprintable for the texts of the model: the control characters are
\* not printable, the empty string is.
isprintable(chars) == chars \notin {"\t", "\n", "\r", "\f"}

(***************************************************************************)
(* The encoder: KeyCode._event.                                            *)
(***************************************************************************)
\* mapping.get(char)
MappingGet(mapping, char) ==
    IF char \in DOMAIN mapping THEN mapping[char] ELSE NoVk

\* self.vk or mapping.get(self.char): None and 0 are both falsy.
ResolveVk(self, mapping) ==
    IF self.vk # NoVk /\ self.vk # 0 THEN self.vk
    ELSE MappingGet(mapping, self.char)

\* The members a set of names of Key denotes, by member name.
MembersNamed(names, class) == { class[n].name : n \in names }

\* FlagsOfMembers as it would be with the control mask copied to the
\* command line.
FlagsOfMembersCopied(held, class) ==
      (IF class["alt"].name \in held THEN kCGEventFlagMaskAlternate ELSE 0)
    + (IF class["cmd"].name \in held THEN kCGEventFlagMaskControl ELSE 0)
    + (IF class["ctrl"].name \in held /\ class["cmd"].name \notin held
       THEN kCGEventFlagMaskControl ELSE 0)
    + (IF class["shift"].name \in held THEN kCGEventFlagMaskShift ELSE 0)
    + (IF class["fn"].name \in held THEN kCGEventFlagMaskSecondaryFn ELSE 0)

\* The flags CGEventSetFlags is called with, for the members held.
FlagsOfMembers(held, class) ==
      (IF class["alt"].name \in held THEN kCGEventFlagMaskAlternate ELSE 0)
    + (IF class["cmd"].name \in held THEN kCGEventFlagMaskCommand ELSE 0)
    + (IF class["ctrl"].name \in held THEN kCGEventFlagMaskControl ELSE 0)
    + (IF class["shift"].name \in held THEN kCGEventFlagMaskShift ELSE 0)
    + (IF class["fn"].name \in held THEN kCGEventFlagMaskSecondaryFn ELSE 0)

\* 0 | (mask if Key.alt in modifiers else 0) | ..., modifiers a set of
\* members of Key given by name
EventFlags(modifiers) == FlagsOfMembers(MembersNamed(modifiers, Key), Key)

\* MediaData1 as it would be with the two tags exchanged.
MediaData1Exchanged(vk, is_pressed) ==
    vk * 65536 + (IF is_pressed THEN ReleaseTag ELSE PressTag) * 256

\* The payload of a media key event: (self.vk << 16) | (tag << 8).
MediaData1(vk, is_pressed) ==
    vk * 65536 + (IF is_pressed THEN PressTag ELSE ReleaseTag) * 256

\* The unicode string override: set when no virtual key was resolved and the
\* key has a character; NoChar when the event's text is left to the layout.
UnicodeOverride(self, vk) ==
    IF vk = NoVk /\ self.char # NoChar THEN self.char ELSE NoChar

\* The event built for a key whose virtual key resolved to vk.  The keycode
\* field of a system-defined event is not set by the encoder; it is 0 here
\* and chosen on delivery.
BuildEvent(self, vk, flags, is_pressed) ==
    IF self.is_media = "True"
    THEN [type |-> NSSystemDefined, vk |-> 0, flags |-> flags,
          subtype |-> kSystemDefinedEventMediaKeysSubtype,
          data1 |-> MediaData1(self.vk, is_pressed),
          chars |-> UnicodeOverride(self, vk), bad |-> FALSE]
    ELSE [type |-> IF is_pressed THEN kCGEventKeyDown ELSE kCGEventKeyUp,
          vk |-> IF vk = NoVk THEN 0 ELSE vk, flags |-> flags,
          subtype |-> 0, data1 |-> 0,
          chars |-> UnicodeOverride(self, vk), bad |-> FALSE]

\* KeyCode._event(modifiers, mapping, is_pressed)
_event(self, modifiers, mapping, is_pressed) ==
    BuildEvent(self, ResolveVk(self, mapping), EventFlags(modifiers),
               is_pressed)

(***************************************************************************)
(* The decoder: Listener._event_to_key.                                    *)
(***************************************************************************)
\* IsCapsLockEdge as it would be without the comparison with the recorded
\* latch.
IsCapsLockEdgeNoLatch(event, flags, latch) ==
    /\ event.type = NSSystemDefined
    /\ ~HasBit(flags, Bit8) /\ HasBit(event.flags, Bit8)
    /\ (HasBit(flags, Bit16) \/ HasBit(event.flags, Bit16))
    /\ (HasBit(flags, Bit16) = HasBit(event.flags, Bit16))

\* The caps lock check of _event_to_key.
IsCapsLockEdge(event, flags, latch) ==
    /\ event.type = NSSystemDefined
    /\ ~HasBit(flags, Bit8) /\ HasBit(event.flags, Bit8)
    /\ (HasBit(flags, Bit16) \/ HasBit(event.flags, Bit16))
    /\ ((HasBit(flags, Bit16) = HasBit(event.flags, Bit16)) = latch)

\* CharacterKey as it would be with the decoded text taken before the
\* control symbol.
CharacterKeyTextFirst(event) ==
    IF event.chars # ""
    THEN AsKey(from_char(event.chars, event.vk))
    ELSE IF /\ event.vk \in DOMAIN SYMBOLS
            /\ HasBit(event.flags, kCGEventFlagMaskControl)
    THEN AsKey(from_char(SYMBOLS[event.vk], event.vk))
    ELSE AsKey(from_vk(event.vk))

\* The character resolution and the fallback of _event_to_key.
CharacterKey(event) ==
    IF /\ ~isprintable(event.chars)
       /\ event.vk \in DOMAIN SYMBOLS
       /\ HasBit(event.flags, kCGEventFlagMaskControl)
    THEN AsKey(from_char(SYMBOLS[event.vk], event.vk))
    ELSE IF event.chars # ""
    THEN AsKey(from_char(event.chars, event.vk))
    ELSE AsKey(from_vk(event.vk))

\* SpecialOrCharacterKey as it would be with the character resolution tried
\* before the special key lookup.
CharacterOrSpecialKey(event, pair, special) ==
    IF event.chars # "" THEN CharacterKey(event)
    ELSE IF pair \in DOMAIN special THEN special[pair]
    ELSE CharacterKey(event)

\* The special key lookup of _event_to_key and what follows it.
SpecialOrCharacterKey(event, pair, special) ==
    IF pair \in DOMAIN special THEN special[pair] ELSE CharacterKey(event)

\* _event_to_key as it would be if the table were looked up by the virtual
\* key under either media flag.
EventToKeyEitherFlag(event, flags, latch) ==
    IF IsCapsLockEdge(event, flags, latch) THEN Key["caps_lock"]
    ELSE IF <<event.vk, "None">> \in DOMAIN _SPECIAL_KEYS
    THEN _SPECIAL_KEYS[<<event.vk, "None">>]
    ELSE SpecialOrCharacterKey(event, <<event.vk, "True">>, _SPECIAL_KEYS)

\* Listener._event_to_key(event), with self._flags and
\* self._is_caps_lock_on as parameters.
_event_to_key(event, flags, latch) ==
    IF IsCapsLockEdge(event, flags, latch) THEN Key["caps_lock"]
    ELSE SpecialOrCharacterKey(
            event,
            <<event.vk,
              IF event.type = NSSystemDefined THEN "True" ELSE "None">>,
            _SPECIAL_KEYS)

\* ConvertedKey as it would be if the except clause fell back on the raw
\* virtual key instead of None.
ConvertedKeyFallback(event, flags, latch) ==
    IF event.bad THEN AsKey(from_vk(event.vk))
    ELSE _event_to_key(event, flags, latch)

\* try: key = self._event_to_key(event) / except IndexError: key = None
ConvertedKey(event, flags, latch) ==
    IF event.bad THEN NoneKey ELSE _event_to_key(event, flags, latch)

(***************************************************************************)
(* The dispatcher: Listener._handle.                                       *)
(***************************************************************************)
\* What a callback may do: return a value, [t, v], or raise.
CallbackReturns == {
    [t |-> "None", v |-> 0],
    [t |-> "int", v |-> 2],
    [t |-> "int", v |-> 1],
    [t |-> "bool", v |-> 1],
    [t |-> "raise", v |-> 0] }

\* No callback was invoked.
NotCalled == [t |-> "not called", v |-> 0]

\* EqualsTwo as it would be if the return value were tested for truth.
EqualsTruthy(r) == r.t \in {"int", "bool"} /\ r.v # 0

\* self.on_press(key) == 2, self.on_release(key) == 2
EqualsTwo(r) == r.t \in {"int", "bool"} /\ r.v = 2

\* Branch as it would be with the system-defined test before the caps lock
\* test.
BranchSystemFirst(event, key) ==
    IF event.type = kCGEventKeyDown THEN "key_down"
    ELSE IF event.type = kCGEventKeyUp THEN "key_up"
    ELSE IF event.type = NSSystemDefined THEN "system_defined"
    ELSE IF SameMember(key, Key["caps_lock"]) THEN "caps_lock"
    ELSE "modifier"

\* The branch of the if chain of _handle that the event takes.
Branch(event, key) ==
    IF event.type = kCGEventKeyDown THEN "key_down"
    ELSE IF event.type = kCGEventKeyUp THEN "key_up"
    ELSE IF SameMember(key, Key["caps_lock"]) THEN "caps_lock"
    ELSE IF event.type = NSSystemDefined THEN "system_defined"
    ELSE "modifier"

\* (sys_event.data1() & 0xffff0000) >> 16
MediaCode(data1) == (data1 \div 65536) % 65536

\* ((sys_event.data1() & 0x0000ffff) & 0xff00) >> 8 == 0x0a
MediaIsPress(data1) == ((data1 % 65536) \div 256) = PressTag

\* ModifierIsPress as it would be if any set flag counted as a press.
ModifierIsPressAny(event, mask) == event.flags # 0

\* ModifierIsPress as it would be if the flags were compared with the mask
\* instead of tested for it.
ModifierIsPressExact(event, mask) == event.flags = mask

\* is_press = flags & self._MODIFIER_FLAGS[key]
ModifierIsPress(event, mask) == HasBit(event.flags, mask)

NoCall == [cb |-> "none", key |-> NoneKey]

\* on_press(key) if is_press, on_release(key) otherwise
PressOrRelease(is_press, key) ==
    [cb |-> IF is_press THEN "on_press" ELSE "on_release", key |-> key]

\* The system-defined branch: the media key lookup and its callback.
MediaCallback(event, pair, special) ==
    IF /\ event.subtype = kSystemDefinedEventMediaKeysSubtype
       /\ pair \in DOMAIN special
    THEN PressOrRelease(MediaIsPress(event.data1), special[pair])
    ELSE NoCall

\* ModifierCallback as it would be if a key without an entry were reported
\* as released.
ModifierCallbackUnknownReleased(event, key, table) ==
    IF ~InMemberDict(key, table) THEN PressOrRelease(FALSE, key)
    ELSE PressOrRelease(ModifierIsPress(event, table[key.name]), key)

\* The modifier branch: not handled unless the key is in the table.
ModifierCallback(event, key, table) ==
    IF ~InMemberDict(key, table) THEN NoCall
    ELSE PressOrRelease(ModifierIsPress(event, table[key.name]), key)

\* The callback _handle invokes on the given branch, and the key it passes.
Callback(event, key, branch) ==
    CASE branch = "key_down" -> PressOrRelease(TRUE, key)
      [] branch = "key_up" -> PressOrRelease(FALSE, key)
      [] branch = "caps_lock" ->
            PressOrRelease(event.type = kCGEventFlagsChanged, key)
      [] branch = "system_defined" ->
            MediaCallback(event, <<MediaCode(event.data1), "True">>,
                          _SPECIAL_KEYS)
      [] OTHER -> ModifierCallback(event, key, _MODIFIER_FLAGS)

\* The callback raised, so _handle is left by the exception.
Raised(call, r) == call.cb # "none" /\ r.t = "raise"

\* should_suppress when _handle is left: False unless a callback returned.
ShouldSuppress(call, r) ==
    call.cb # "none" /\ r.t # "raise" /\ EqualsTwo(r)

\* StoreFlags as it would be without the test of should_suppress: the
\* snapshot follows every event.
StoreFlagsAlways(should_suppress, event, flags) == event.flags

\* The finally clause: the new value of self._flags.
StoreFlags(should_suppress, event, flags) ==
    IF ~should_suppress THEN event.flags ELSE flags

\* StoreCapsLock as it would be if every caps lock event, the release too,
\* wrote the latch.
StoreCapsLockEveryEvent(event, branch, raised, latch) ==
    IF branch = "caps_lock" /\ ~raised
    THEN HasBit(event.flags, Bit16)
    ELSE latch

\* The new value of self._is_caps_lock_on.
StoreCapsLock(event, branch, raised, latch) ==
    IF branch = "caps_lock" /\ event.type = kCGEventFlagsChanged /\ ~raised
    THEN HasBit(event.flags, Bit16)
    ELSE latch

\* Posted as it would be if the echo were posted whatever the callback
\* returned.
PostedAlways(branch, call, raised, should_suppress) ==
    IF branch = "modifier" /\ call.cb # "none" /\ ~raised
    THEN << _event(ValueOf(call.key), {}, << >>, call.cb = "on_press") >>
    ELSE << >>

\* The events _handle posts: the echo of an allowed modifier event.
Posted(branch, call, raised, should_suppress) ==
    IF branch = "modifier" /\ call.cb # "none" /\ ~raised /\ ~should_suppress
    THEN << _event(ValueOf(call.key), {}, << >>, call.cb = "on_press") >>
    ELSE << >>

\* The flags of the event object when _handle is left.
FlagsAfter(event, branch, call, should_suppress, flags) ==
    IF branch = "modifier" /\ call.cb # "none" /\ should_suppress
    THEN flags ELSE event.flags

\* _handle once the callback has run.
AfterCallback(event, branch, call, raised, should_suppress, flags, latch) ==
    [call |-> call,
     raised |-> raised,
     result |-> should_suppress,
     posted |-> Posted(branch, call, raised, should_suppress),
     event_flags |-> FlagsAfter(event, branch, call, should_suppress, flags),
     flags |-> StoreFlags(should_suppress, event, flags),
     latch |-> StoreCapsLock(event, branch, raised, latch)]

\* _handle once the branch is known.
Dispatch(event, branch, call, r, flags, latch) ==
    AfterCallback(event, branch, call, Raised(call, r),
                  ShouldSuppress(call, r), flags, latch)

\* _handle once the event is converted.
HandleKey(event, key, branch, r, flags, latch) ==
    Dispatch(event, branch, Callback(event, key, branch), r, flags, latch)

\* _handle once the event is converted, before the if chain.
HandleConverted(event, key, r, flags, latch) ==
    HandleKey(event, key, Branch(event, key), r, flags, latch)

\* Listener._handle(_proxy, event_type, event, _refcon) with the callback's
\* behaviour r and self._flags, self._is_caps_lock_on as parameters: what it
\* calls, returns, posts and stores.
_handle(event, r, flags, latch) ==
    HandleConverted(event, ConvertedKey(event, flags, latch), r, flags, latch)

(***************************************************************************)
(* The listener as a state machine.  The event tap calls _handle once per  *)
(* native event, on the listener's thread, one call at a time.             *)
(***************************************************************************)
VARIABLES
    _flags,             \* Listener._flags
    _is_caps_lock_on,   \* Listener._is_caps_lock_on
    pc,                 \* "idle": in the run loop; "done": _handle was left
    event,              \* the event _handle was called with
    cb_return,          \* what the callback did, NotCalled if none was called
    out,                \* what _handle did: its calls, result, posts, stores
    entry,              \* self._flags and self._is_caps_lock_on on entry
    last_allowed,       \* history: the flags of the last event not suppressed
    toggle,             \* history: the caps lock toggle under way
    sent,               \* the key, modifiers and sense a handled event was
                        \* encoded from, NoSent for a native event
    posted              \* the event encoded and posted by a caller thread
                        \* and not yet delivered to the tap, NoSent if none

VARIABLES
    modifiers,          \* Controller._modifiers, by member name
    lock,               \* the thread holding Controller._modifiers_lock
    tpc,                \* every caller thread's place in press/release
    frame,              \* every caller thread's locals: the key, is_press,
                        \* `modifiers` of the with statement, the event
    calls,              \* the number of press/release calls begun
    queue               \* history: the events posted, each with
                        \* Controller._modifiers at the moment of the post

VARIABLES
    _context,           \* Listener._context
    rpc                 \* the listener thread's place in Listener._run

rvars == <<_context, rpc>>

lvars == <<_flags, _is_caps_lock_on, pc, event, cb_return, out, entry,
           last_allowed>>
cvars == <<modifiers, lock, tpc, frame, calls, queue>>
vars == <<lvars, rvars, toggle, sent, posted, cvars>>

NoEvent == [type |-> 0, vk |-> 0, flags |-> 0, subtype |-> 0, data1 |-> 0,
            chars |-> "", bad |-> FALSE]
NoOut == [call |-> NoCall, raised |-> FALSE, result |-> FALSE,
          posted |-> << >>, event_flags |-> 0, flags |-> 0, latch |-> FALSE]
NoEntry == [flags |-> 0, latch |-> FALSE]
NoToggle == [phase |-> "none", calls |-> << >>, between |-> 0]
NoSent == [key |-> from_vk(NoVk), name |-> "", modifiers |-> {},
           is_pressed |-> FALSE, synthetic |-> FALSE, encoded |-> NoEvent]

\* self._context = None, and the context keycode_context() yields.
NoContext == "<None>"

Context == "context"

\* Listener.__init__
ListenerInit ==
    /\ _flags = 0
    /\ _is_caps_lock_on = FALSE
    /\ pc = "idle"
    /\ event = NoEvent
    /\ cb_return = NotCalled
    /\ out = NoOut
    /\ entry = NoEntry
    /\ last_allowed = 0
    /\ toggle = NoToggle
    /\ sent = NoSent
    /\ posted = NoSent
    /\ _context = NoContext
    /\ rpc = "created"

\* _handle ran on event e with callback behaviour r and did o.
Handled(e, r, o) ==
    /\ (r = NotCalled) <=> (o.call.cb = "none")
    /\ event' = e
    /\ cb_return' = r
    /\ out' = o
    /\ entry' = [flags |-> _flags, latch |-> _is_caps_lock_on]
    /\ _flags' = o.flags
    /\ _is_caps_lock_on' = o.latch
    /\ last_allowed' = IF o.result THEN last_allowed ELSE e.flags
    /\ pc' = "done"

\* The tap calls _handle with an event of the set events; the callback, if
\* one is invoked, behaves in one of the ways of CallbackReturns.
HandleEvent(events) ==
    /\ rpc = "running"
    /\ pc = "idle"
    /\ \E e \in events, r \in CallbackReturns \cup {NotCalled} :
        Handled(e, r, _handle(e, r, _flags, _is_caps_lock_on))
    /\ UNCHANGED <<toggle, sent, posted, cvars, rvars>>

\* Listener._run: with keycode_context() as context.  Acquiring the context
\* may raise, and _run is left with the exception.
Acquire ==
    /\ rpc = "created"
    /\ \E raises \in BOOLEAN :
          rpc' = IF raises THEN "aborted" ELSE "acquired"
    /\ UNCHANGED <<lvars, _context, toggle, sent, posted, cvars>>

\* Listener._run: self._context = context, and the run loop is entered.
EnterRunLoop ==
    /\ rpc = "acquired"
    /\ _context' = Context
    /\ rpc' = "running"
    /\ UNCHANGED <<lvars, toggle, sent, posted, cvars>>

\* self._context once the try statement of _run is left on the way without
\* a finally clause: reset after a normal return only.
ContextAfterReturnOnly(context, raised) ==
    IF raised THEN context ELSE NoContext

\* self._context once the try statement of _run is left: the finally clause
\* resets it whether the run loop returned or raised.
ContextAfterRunLoop(context, raised) == NoContext

\* Listener._run: the run loop returns (the listener was stopped) or raises,
\* between two events; the finally clause runs.
LeaveRunLoop ==
    /\ rpc = "running"
    /\ pc = "idle"
    /\ \E raised \in BOOLEAN :
          /\ _context' = ContextAfterRunLoop(_context, raised)
          /\ rpc' = IF raised THEN "raised" ELSE "returned"
    /\ UNCHANGED <<lvars, toggle, sent, posted, cvars>>

\* _handle was left: the run loop waits for the next event.
Return ==
    /\ pc = "done"
    /\ pc' = "idle"
    /\ event' = NoEvent
    /\ cb_return' = NotCalled
    /\ out' = NoOut
    /\ entry' = NoEntry
    /\ sent' = NoSent
    /\ UNCHANGED <<_flags, _is_caps_lock_on, last_allowed, toggle, posted, cvars,
                   rvars>>

(***************************************************************************)
(* The native events of the model.                                         *)
(***************************************************************************)
\* Flags of the events: the two caps lock bits, control and shift.
NativeFlagValues ==
    MasksOver({Bit8, Bit16, kCGEventFlagMaskControl, kCGEventFlagMaskShift})

\* Decoded texts: none, a letter, a control character, a space.
Texts == {"", "a", "\t", " "}

\* Virtual keys: a (0, also the sub-code of a media key), space, shift,
\* caps lock and a key code no table knows.
KeyVks == {0, 49, 56, 57, 200}

\* Virtual keys of flags-changed events: shift, right shift, control, caps
\* lock and a key that is no modifier.
ModifierVks == {56, 60, 59, 57, 0}

\* Payloads of system-defined events: media keys pressed and released, an
\* unknown sub-code, and a payload with neither tag.
Payloads ==
    { MediaData1(c, p) : c \in {NX_KEYTYPE_SOUND_UP, NX_KEYTYPE_PLAY, 5},
                         p \in BOOLEAN } \cup {0}

Ev(type, vk, flags, subtype, data1, chars, bad) ==
    [type |-> type, vk |-> vk, flags |-> flags, subtype |-> subtype,
     data1 |-> data1, chars |-> chars, bad |-> bad]

KeyEvents(flagValues) ==
    { Ev(t, vk, f, 0, 0, c, FALSE) :
        t \in {kCGEventKeyDown, kCGEventKeyUp}, vk \in KeyVks,
        f \in flagValues, c \in Texts }

FlagsChangedEvents(vks, flagValues) ==
    { Ev(kCGEventFlagsChanged, vk, f, 0, 0, "", FALSE) :
        vk \in vks, f \in flagValues }

SystemDefinedEvents(flagValues) ==
    { Ev(NSSystemDefined, vk, f, st, d, "", FALSE) :
        vk \in {0, 57}, f \in flagValues,
        st \in {kSystemDefinedEventMediaKeysSubtype, 7}, d \in Payloads }

\* Events whose conversion raises IndexError.
BadEvents(flagValues) ==
    { Ev(t, 0, f, 0, 0, "", TRUE) :
        t \in {kCGEventKeyDown, kCGEventKeyUp, kCGEventFlagsChanged},
        f \in flagValues }
    \cup
    { Ev(NSSystemDefined, 0, f, st, d, "", TRUE) :
        f \in flagValues,
        st \in {kSystemDefinedEventMediaKeysSubtype, 7}, d \in Payloads }

NativeEvents ==
    KeyEvents(NativeFlagValues)
    \cup FlagsChangedEvents(ModifierVks, NativeFlagValues)
    \cup SystemDefinedEvents(NativeFlagValues)
    \cup BadEvents(NativeFlagValues)

(***************************************************************************)
(* The controller, as far as the listener's specifications need it: no     *)
(* caller thread runs.                                                     *)
(***************************************************************************)
\* The caller threads of the controller.
Threads == {"t1", "t2"}

NoThread == "none"

NoFrame == [key |-> NoneKey, is_press |-> FALSE, modifiers |-> {},
            event |-> NoEvent]

\* Controller.__init__
ControllerInit ==
    /\ modifiers = {}
    /\ lock = NoThread
    /\ tpc = [t \in Threads |-> "idle"]
    /\ frame = [t \in Threads |-> NoFrame]
    /\ calls = 0
    /\ queue = << >>

Init == ListenerInit /\ ControllerInit

Next == Acquire \/ EnterRunLoop \/ HandleEvent(NativeEvents) \/ Return

Spec == Init /\ [][Next]_vars

(***************************************************************************)
(* The listener on modifier events alone, with every combination of the    *)
(* five modifier families in the flags.                                    *)
(***************************************************************************)
FamilyFlagValues ==
    MasksOver({kCGEventFlagMaskShift, kCGEventFlagMaskControl,
               kCGEventFlagMaskAlternate, kCGEventFlagMaskCommand,
               kCGEventFlagMaskSecondaryFn})

\* The virtual keys of alt, right alt, cmd, right cmd, ctrl, right ctrl,
\* shift, right shift and fn; caps lock; a key that is no modifier.
AllModifierVks == {58, 61, 55, 54, 59, 62, 56, 60, 63, 57, 0}

ModifierEvents ==
    FlagsChangedEvents(AllModifierVks, FamilyFlagValues)
    \cup { Ev(kCGEventFlagsChanged, 0, f, 0, 0, "", TRUE) :
             f \in FamilyFlagValues }

NextMod == Acquire \/ EnterRunLoop \/ HandleEvent(ModifierEvents) \/ Return

SpecMod == Init /\ [][NextMod]_vars

(***************************************************************************)
(* The listener on caps lock toggles.  A toggle is a flags-changed event   *)
(* of the caps lock key, then modifier events, then a system-defined event *)
(* that meets the edge condition; toggle keeps the callbacks made for the  *)
(* events of the toggle under way.                                         *)
(***************************************************************************)
\* The modifier events followed between the two events of a toggle.
MaxBetween == 2

\* The condition on the second event of a toggle: a system-defined event,
\* bit 8 unset in the snapshot and set in the event, bit 16 set in either,
\* and the equality of the two bits 16 matching the recorded latch.
EdgeCondition(e, snap, latch) ==
    /\ e.type = NSSystemDefined /\ ~e.bad
    /\ (snap \div 256) % 2 = 0 /\ (e.flags \div 256) % 2 = 1
    /\ ((snap \div 65536) % 2 = 1 \/ (e.flags \div 65536) % 2 = 1)
    /\ (((snap \div 65536) % 2 = (e.flags \div 65536) % 2) <=> latch)

\* The first event of a toggle: the flags-changed event of the caps lock key.
IsCapsLockEvent(e) ==
    e.type = kCGEventFlagsChanged /\ ~e.bad /\ e.vk = 57

\* A flags-changed event of another modifier key.
IsOtherModifierEvent(e) ==
    e.type = kCGEventFlagsChanged /\ ~e.bad /\ e.vk \in {56, 60, 59}

CallsWith(tg, call) ==
    IF call.cb = "none" THEN tg.calls ELSE Append(tg.calls, call)

\* The toggle after event e was handled from snapshot snap and latch, with
\* the callback call.
ToggleStep(tg, e, snap, latch, call) ==
    IF IsCapsLockEvent(e)
    THEN [phase |-> "open", calls |-> CallsWith(NoToggle, call), between |-> 0]
    ELSE IF tg.phase = "open" /\ IsOtherModifierEvent(e)
              /\ tg.between < MaxBetween
    THEN [phase |-> "open", calls |-> CallsWith(tg, call),
          between |-> tg.between + 1]
    ELSE IF tg.phase = "open" /\ EdgeCondition(e, snap, latch)
    THEN [phase |-> "closed", calls |-> CallsWith(tg, call),
          between |-> tg.between]
    ELSE NoToggle

Tracked(e, r, o) ==
    /\ Handled(e, r, o)
    /\ toggle' = ToggleStep(toggle, e, _flags, _is_caps_lock_on, o.call)

\* HandleEvent, with the toggle followed.
HandleTracked(events) ==
    /\ rpc = "running"
    /\ pc = "idle"
    /\ \E e \in events, r \in CallbackReturns \cup {NotCalled} :
        Tracked(e, r, _handle(e, r, _flags, _is_caps_lock_on))
    /\ UNCHANGED <<sent, posted, cvars, rvars>>

CapsFlagValues == MasksOver({Bit8, Bit16, kCGEventFlagMaskShift})

CapsEvents ==
    FlagsChangedEvents({57, 56, 60}, CapsFlagValues)
    \cup { Ev(NSSystemDefined, 0, f, kSystemDefinedEventMediaKeysSubtype, d,
              "", FALSE) :
             f \in CapsFlagValues,
             d \in {0, MediaData1(NX_KEYTYPE_PLAY, TRUE)} }
    \cup { Ev(kCGEventKeyDown, 0, f, 0, 0, "a", FALSE) : f \in CapsFlagValues }

NextCaps == Acquire \/ EnterRunLoop \/ HandleTracked(CapsEvents) \/ Return

SpecCaps == Init /\ [][NextCaps]_vars

(***************************************************************************)
(* The encoder and the listener together: a key is encoded by              *)
(* KeyCode._event, the event is delivered to the tap and handled.          *)
(***************************************************************************)
\* The keys a modifier set is drawn from, and the size of the sets.
MaxModifiers == 2

ModifierNames == {"alt", "alt_l", "alt_r", "alt_gr", "cmd", "cmd_l", "cmd_r",
                  "ctrl", "ctrl_l", "ctrl_r", "shift", "shift_l", "shift_r",
                  "fn", "caps_lock"}

ModifierSets ==
    { m \in SUBSET ModifierNames : Cardinality(m) <= MaxModifiers }

\* Controller._mapping for a layout: the virtual keys of a and b.
LayoutMapping == ("a" :> 0) @@ ("b" :> 11)

\* Every named key and every plain key code with no modifiers held, and a
\* media key and a character with every modifier set.
NamedKeys(class) ==
    { [key |-> ValueOf(class[n]), name |-> n] : n \in DOMAIN class }

\* Key codes with and without a virtual key (0 among them) and a character,
\* in the layout's mapping (b) or not (c).
PlainKeys ==
    { [key |-> k, name |-> ""] :
        k \in {from_char("b", NoVk), from_char("b", 0), from_char("b", 45),
               from_char("c", NoVk), from_char("c", 0),
               from_vk(NoVk), from_vk(0), from_vk(45)} }

EncodedWithModifiers(class) ==
    { [key |-> ValueOf(class[n]), name |-> n] : n \in {"media_next"} }
    \cup { [key |-> from_char("b", NoVk), name |-> ""] }

\* The event the tap receives for an encoded event: the keycode field of a
\* system-defined event and the text of an event without a unicode string
\* are the system's.
Delivered(e, keycode, text) ==
    [e EXCEPT !.vk = IF e.type = NSSystemDefined THEN keycode ELSE @,
              !.chars = IF @ = NoChar THEN text ELSE @]

\* What is known of a posted event: the key, modifiers and sense it was
\* encoded from, and the event.
Encoded(k, mods, is_pressed, encoded) ==
    [key |-> k.key, name |-> k.name, modifiers |-> mods,
     is_pressed |-> is_pressed, synthetic |-> TRUE, encoded |-> encoded]

\* A caller thread encodes a key with KeyCode._event and posts the event
\* with CGEventPost, while the listener waits in its run loop or between two
\* of its events; the event is not handled yet.  One posted event at a time
\* is in flight.
PostSynthetic ==
    /\ rpc = "running"
    /\ pc = "idle"
    /\ posted = NoSent
    /\ \E is_pressed \in BOOLEAN :
          \/ \E k \in NamedKeys(Key) \cup PlainKeys :
                posted' = Encoded(k, {}, is_pressed,
                    _event(k.key, {}, LayoutMapping, is_pressed))
          \/ \E k \in EncodedWithModifiers(Key), mods \in ModifierSets :
                posted' = Encoded(k, mods, is_pressed,
                    _event(k.key, mods, LayoutMapping, is_pressed))
    /\ UNCHANGED <<lvars, rvars, toggle, sent, cvars>>

\* The posted event p reached the tap as the event e and was handled.
Delivering(p, e, r) ==
    /\ Handled(e, r, _handle(e, r, _flags, _is_caps_lock_on))
    /\ sent' = p
    /\ posted' = NoSent

\* The run loop calls _handle with the posted event, after any number of
\* native events handled since the post.
DeliverSynthetic ==
    /\ rpc = "running"
    /\ pc = "idle"
    /\ posted # NoSent
    /\ \E keycode \in {0, 57}, text \in {"", "b"},
          r \in CallbackReturns \cup {NotCalled} :
          Delivering(posted, Delivered(posted.encoded, keycode, text), r)
    /\ UNCHANGED <<toggle, cvars, rvars>>

\* Native events that move the listener's snapshot and latch.
NoiseEvents ==
    FlagsChangedEvents({57}, {0, Bit16, Bit8 + Bit16})

NextEnc ==
    Acquire \/ EnterRunLoop \/ PostSynthetic \/ HandleEvent(NoiseEvents)
    \/ DeliverSynthetic \/ Return

SpecEnc == Init /\ [][NextEnc]_vars

(***************************************************************************)
(* The life of the listener thread: _run from its start to its end.        *)
(***************************************************************************)
\* Events handled while the run loop runs: key events and caps lock events.
RunEvents ==
    KeyEvents({0, kCGEventFlagMaskShift}) \cup NoiseEvents

NextRun ==
    Acquire \/ EnterRunLoop \/ HandleEvent(RunEvents) \/ Return
    \/ LeaveRunLoop

SpecRun == Init /\ [][NextRun]_vars

(***************************************************************************)
(* The controller: press and release called from several threads.          *)
(***************************************************************************)
\* The number of press/release calls of a behaviour.
MaxCalls == 3

\* The keys pressed and released: three modifiers and a character.
ControllerKeys ==
    {Key["shift"], Key["alt_r"], Key["cmd_l"], AsKey(from_char("a", NoVk))}

\* The keys press and release record in the modifier set.
IsModifier(key) == key.tag = "Key" /\ key.name \in ModifierNames

\* The holder of the modifier lock once thread t has entered the with block.
HeldByNoOne(t) == NoThread

HeldBy(t) == t

\* The lock can be taken by a thread when no thread holds it.
Free(holder) == holder = NoThread

\* key if key not in (k for k in Key) else key.value
Encodable(key) ==
    IF \E n \in DOMAIN Key : SameMember(key, Key[n])
    THEN ValueOf(Key[key.name])
    ELSE [vk |-> key.vk, char |-> key.char, is_media |-> key.is_media]

\* A thread calls press(key) or release(key).
Call(t) ==
    /\ tpc[t] = "idle"
    /\ calls < MaxCalls
    /\ \E key \in ControllerKeys, is_press \in BOOLEAN :
          frame' = [frame EXCEPT ![t] =
                      [NoFrame EXCEPT !.key = key, !.is_press = is_press]]
    /\ calls' = calls + 1
    /\ tpc' = [tpc EXCEPT ![t] = "update"]
    /\ UNCHANGED <<modifiers, lock, queue, lvars, rvars, toggle,
                   sent, posted>>

\* press and release add a modifier key to the set, or remove it, while
\* holding the lock.
UpdateModifiers(t) ==
    /\ tpc[t] = "update"
    /\ Free(lock)
    /\ modifiers' =
          IF ~IsModifier(frame[t].key) THEN modifiers
          ELSE IF frame[t].is_press
               THEN modifiers \cup {frame[t].key.name}
               ELSE modifiers \ {frame[t].key.name}
    /\ tpc' = [tpc EXCEPT ![t] = "handle"]
    /\ UNCHANGED <<lock, frame, calls, queue, lvars, rvars, toggle,
                   sent, posted>>

\* Controller._handle: with self.modifiers as modifiers
Enter(t) ==
    /\ tpc[t] = "handle"
    /\ Free(lock)
    /\ lock' = HeldBy(t)
    /\ frame' = [frame EXCEPT ![t].modifiers = modifiers]
    /\ tpc' = [tpc EXCEPT ![t] = "encode"]
    /\ UNCHANGED <<modifiers, calls, queue, lvars, rvars, toggle,
                   sent, posted>>

\* Controller._handle: the argument of CGEventPost is evaluated
Encode(t) ==
    /\ tpc[t] = "encode"
    /\ frame' = [frame EXCEPT ![t].event =
                   _event(Encodable(frame[t].key), frame[t].modifiers,
                          LayoutMapping, frame[t].is_press)]
    /\ tpc' = [tpc EXCEPT ![t] = "post"]
    /\ UNCHANGED <<modifiers, lock, calls, queue, lvars, rvars, toggle,
                   sent, posted>>

\* Controller._handle: Quartz.CGEventPost
Post(t) ==
    /\ tpc[t] = "post"
    /\ queue' = Append(queue, [thread |-> t, flags |-> frame[t].event.flags,
                               type |-> frame[t].event.type,
                               held |-> modifiers])
    /\ tpc' = [tpc EXCEPT ![t] = "exit"]
    /\ UNCHANGED <<modifiers, lock, frame, calls, lvars, rvars, toggle,
                   sent, posted>>

\* Controller._handle: the with block is left
Exit(t) ==
    /\ tpc[t] = "exit"
    /\ lock' = NoThread
    /\ frame' = [frame EXCEPT ![t] = NoFrame]
    /\ tpc' = [tpc EXCEPT ![t] = "idle"]
    /\ UNCHANGED <<modifiers, calls, queue, lvars, rvars, toggle,
                   sent, posted>>

NextCtl ==
    \E t \in Threads :
        \/ Call(t)
        \/ UpdateModifiers(t)
        \/ Enter(t)
        \/ Encode(t)
        \/ Post(t)
        \/ Exit(t)

SpecCtl == Init /\ [][NextCtl]_vars

(***************************************************************************)
(* Properties.                                                             *)
(***************************************************************************)
Handling == pc = "done"

\* C1: a call of _handle that suppresses the event leaves _flags as it was
\* on entry; a call that does not (not handled, ignored, conversion failed,
\* callback raised) leaves _flags equal to the flags of the event.  So
\* _flags is always the flags of the last event that was not suppressed, 0
\* before the first.
C1_FlagsFollowAllowedEvents ==
    /\ Handling =>
          _flags = (IF out.result THEN entry.flags ELSE event.flags)
    /\ _flags = last_allowed

\* A suppressed event whose flags differ from the snapshot was handled.
C1_Witness ==
    Handling /\ out.result /\ event.flags # entry.flags /\ entry.flags # 0

\* C3: _handle returns true exactly when it invoked a callback and the
\* callback returned 2; None, 1, True, and events without a callback, give
\* false.
C3_SuppressIffCallbackReturnedTwo ==
    Handling =>
        (out.result <=>
            /\ out.call.cb \in {"on_press", "on_release"}
            /\ cb_return = [t |-> "int", v |-> 2])

\* A callback returned True, which is not the sentinel, and the event was
\* allowed.
C3_Witness ==
    Handling /\ ~out.result /\ cb_return = [t |-> "bool", v |-> 1]
        /\ out.call.cb = "on_release"

\* C8 as claimed: whatever its type, an event whose conversion fails is
\* dispatched to a callback with the null key.
C8_BadEventAlwaysDispatched ==
    (Handling /\ event.bad) =>
        out.call.cb \in {"on_press", "on_release"} /\ out.call.key = NoneKey

\* C8, amended: a failed conversion is no error.  A key-down event is then
\* dispatched to on_press and a key-up event to on_release with the null
\* key; a flags-changed event is not handled: no callback, result false,
\* nothing posted; a system-defined event is dispatched from its payload as
\* if the conversion had succeeded, never with the null key.
C8_BadEventByType ==
    (Handling /\ event.bad) =>
        /\ out.raised => cb_return.t = "raise"
        /\ event.type = kCGEventKeyDown =>
              out.call = [cb |-> "on_press", key |-> NoneKey]
        /\ event.type = kCGEventKeyUp =>
              out.call = [cb |-> "on_release", key |-> NoneKey]
        /\ event.type = kCGEventFlagsChanged =>
              out.call = NoCall /\ ~out.result /\ out.posted = << >>
        /\ event.type = NSSystemDefined =>
              out.call = NoCall \/ out.call.key.is_media = "True"

\* A key-down event whose conversion failed reached on_press with None.
C8_Witness ==
    Handling /\ event.bad /\ event.type = kCGEventKeyDown
        /\ out.call = [cb |-> "on_press", key |-> NoneKey] /\ ~out.raised

\* The mask of the family of a modifier virtual key.
FamilyMaskOfVk(vk) ==
    CASE vk \in {58, 61} -> kCGEventFlagMaskAlternate
      [] vk \in {55, 54} -> kCGEventFlagMaskCommand
      [] vk \in {59, 62} -> kCGEventFlagMaskControl
      [] vk \in {56, 60} -> kCGEventFlagMaskShift
      [] vk = 63 -> kCGEventFlagMaskSecondaryFn

\* C2: a flags-changed event of a modifier key M whose family bit is set in
\* the event and was unset in the snapshot reaches on_press(M); one whose
\* family bit is clear in the event and was set in the snapshot reaches
\* on_release(M); whatever the bits of the other families are.
C2_ModifierPressAndRelease ==
    (Handling /\ ~event.bad /\ event.type = kCGEventFlagsChanged
        /\ event.vk \in {58, 61, 55, 54, 59, 62, 56, 60, 63}) =>
        LET F == FamilyMaskOfVk(event.vk)
        IN  /\ out.call.key.tag = "Key"
            /\ out.call.key.vk = event.vk
            /\ InMemberDict(out.call.key, _MODIFIER_FLAGS)
            /\ (HasBit(event.flags, F) /\ ~HasBit(entry.flags, F))
                  => out.call.cb = "on_press"
            /\ (~HasBit(event.flags, F) /\ HasBit(entry.flags, F))
                  => out.call.cb = "on_release"

\* Right shift was released while control and alt stayed held.
C2_Witness ==
    /\ Handling /\ ~event.bad /\ event.type = kCGEventFlagsChanged
    /\ event.vk = 60
    /\ HasBit(entry.flags, kCGEventFlagMaskShift)
    /\ event.flags = kCGEventFlagMaskControl + kCGEventFlagMaskAlternate
    /\ entry.flags = event.flags + kCGEventFlagMaskShift
    /\ out.call = [cb |-> "on_release", key |-> Key["shift_r"]]

\* The callbacks of a toggle that were given the caps lock key.
RECURSIVE CapsLockCalls(_)
CapsLockCalls(cs) ==
    IF cs = << >> THEN << >>
    ELSE IF SameMember(Head(cs).key, Key["caps_lock"])
    THEN <<Head(cs).cb>> \o CapsLockCalls(Tail(cs))
    ELSE CapsLockCalls(Tail(cs))

\* C4: the two events of a caps lock toggle, the flags-changed event of the
\* caps lock key and then the system-defined event that meets the edge
\* condition, are reported as on_press(caps_lock) then on_release(caps_lock),
\* however many events of other modifiers are handled in between.
C4_ToggleIsPressThenRelease ==
    toggle.phase = "closed" =>
        /\ CapsLockCalls(toggle.calls) = <<"on_press", "on_release">>
        /\ Head(toggle.calls).cb = "on_press"
        /\ toggle.calls[Len(toggle.calls)].cb = "on_release"

\* A toggle was completed with two modifier events between its events.
C4_Witness ==
    /\ toggle.phase = "closed" /\ toggle.between = 2
    /\ Len(toggle.calls) = 4
    /\ out.call = [cb |-> "on_release", key |-> Key["caps_lock"]]

\* C5 as claimed: the event in which the edge detection finds caps lock is
\* dispatched as a press.
C5_EdgeIsPress ==
    (Handling /\ EdgeCondition(event, entry.flags, entry.latch)) =>
        out.call = [cb |-> "on_press", key |-> Key["caps_lock"]]

\* C5, amended: the event in which the edge detection finds caps lock, a
\* system-defined event, is dispatched as the release of caps lock; the
\* press is the flags-changed event of the caps lock key, found by the
\* special key table, and no other flags-changed or system-defined event is
\* dispatched as caps lock.
C5_EdgeIsRelease ==
    Handling =>
        /\ EdgeCondition(event, entry.flags, entry.latch) =>
              out.call = [cb |-> "on_release", key |-> Key["caps_lock"]]
        /\ IsCapsLockEvent(event) =>
              out.call = [cb |-> "on_press", key |-> Key["caps_lock"]]
        /\ (/\ event.type \in {kCGEventFlagsChanged, NSSystemDefined}
            /\ SameMember(out.call.key, Key["caps_lock"])) =>
              \/ IsCapsLockEvent(event)
              \/ EdgeCondition(event, entry.flags, entry.latch)

\* The edge detection found caps lock being switched off, and the event was
\* dispatched to on_release.
C5_Witness ==
    /\ Handling /\ EdgeCondition(event, entry.flags, entry.latch)
    /\ ~entry.latch /\ entry.flags = 0
    /\ out.call = [cb |-> "on_release", key |-> Key["caps_lock"]]

\* The encoded key of the event being handled was a media key.
SentMedia ==
    Handling /\ sent.synthetic /\ sent.name # "" /\ sent.key.is_media = "True"

\* C6: a synthesized press or release of a media key is a system-defined
\* event of the media subtype whose payload carries the key's code in bits
\* 16 and up and the tag 0x0a (press) or 0x0b (release) in bits 8..15, and
\* the listener reports it through the matching callback as the same media
\* key, whatever the listener's state and the modifiers held; media_volume_up
\* pressed carries NX_KEYTYPE_SOUND_UP and the tag 0x0a.
C6_MediaKeyRoundTrip ==
    SentMedia =>
        /\ event.type = NSSystemDefined
        /\ event.subtype = kSystemDefinedEventMediaKeysSubtype
        /\ event.data1 \div 65536 = sent.key.vk
        /\ (event.data1 \div 256) % 256 =
               (IF sent.is_pressed THEN 10 ELSE 11)
        /\ event.data1 % 256 = 0
        /\ out.call.cb =
               (IF sent.is_pressed THEN "on_press" ELSE "on_release")
        /\ out.call.key.tag = "Key"
        /\ out.call.key.name = Key[sent.name].name
        /\ out.call.key.is_media = "True"
        /\ out.call.key.vk = sent.key.vk
        /\ (sent.name = "media_volume_up" /\ sent.is_pressed =>
               /\ event.data1 \div 65536 = NX_KEYTYPE_SOUND_UP
               /\ (event.data1 \div 256) % 256 = 10)

\* A release of media_next with shift held was reported while the listener's
\* snapshot had the caps lock bit and the latch was set.
C6_Witness ==
    /\ SentMedia
    /\ sent.name = "media_next"
    /\ ~sent.is_pressed
    /\ sent.modifiers = {"shift"}
    /\ entry.flags = Bit16
    /\ entry.latch
    /\ out.call = [cb |-> "on_release", key |-> Key["media_next"]]

\* No two distinct named keys share a (virtual key, media flag) pair.
PairsAreUnique ==
    \A i, j \in DOMAIN KeyMembers :
        (/\ KeyMembers[i].vk = KeyMembers[j].vk
         /\ KeyMembers[i].is_media = KeyMembers[j].is_media) => i = j

\* C7: a named key encoded with no modifiers held decodes to a key equal to
\* it under the KeyCode equality rule, the named key itself, reported through
\* the callback of the direction sent; no two distinct named keys share a
\* (virtual key, media flag) pair.
C7_NamedKeyRoundTrip ==
    /\ PairsAreUnique
    /\ (Handling /\ sent.synthetic /\ sent.name # "" /\ sent.modifiers = {}
        => /\ out.call.cb =
                  (IF sent.is_pressed THEN "on_press" ELSE "on_release")
           /\ KeyCodeEq(ValueOf(out.call.key), sent.key)
           /\ SameMember(out.call.key, Key[sent.name]))

\* The alias alt_gr was sent as a press and reported as the member alt_r.
C7_Witness ==
    /\ Handling /\ sent.synthetic /\ sent.modifiers = {}
    /\ sent.name = "alt_gr"
    /\ sent.is_pressed
    /\ out.call = [cb |-> "on_press", key |-> Key["alt_r"]]

\* The names of a modifier family: the generic key and its two variants.
FamilyNames(generic) ==
    CASE generic = "alt" -> {"alt", "alt_l", "alt_r", "alt_gr"}
      [] generic = "cmd" -> {"cmd", "cmd_l", "cmd_r"}
      [] generic = "ctrl" -> {"ctrl", "ctrl_l", "ctrl_r"}
      [] generic = "shift" -> {"shift", "shift_l", "shift_r"}
      [] generic = "fn" -> {"fn"}

\* The names the encoder's membership tests accept: the generic key and the
\* left variant, which is the same member.
TestedNames(generic) ==
    CASE generic = "alt" -> {"alt", "alt_l"}
      [] generic = "cmd" -> {"cmd", "cmd_l"}
      [] generic = "ctrl" -> {"ctrl", "ctrl_l"}
      [] generic = "shift" -> {"shift", "shift_l"}
      [] generic = "fn" -> {"fn"}

MaskOfFamily(generic) ==
    CASE generic = "alt" -> kCGEventFlagMaskAlternate
      [] generic = "cmd" -> kCGEventFlagMaskCommand
      [] generic = "ctrl" -> kCGEventFlagMaskControl
      [] generic = "shift" -> kCGEventFlagMaskShift
      [] generic = "fn" -> kCGEventFlagMaskSecondaryFn

Families == {"alt", "cmd", "ctrl", "shift", "fn"}

\* C9 as stated: the flags of an encoded event are exactly the masks of the
\* families with a key, generic, left or right, in the modifier set.
C9_FlagsOfAnyVariant ==
    Handling /\ sent.synthetic =>
        event.flags = SumSet({ MaskOfFamily(f) : f \in
            { g \in Families : sent.modifiers \cap FamilyNames(g) # {} } })

\* C9: the flags of an encoded event are exactly the masks of the families
\* whose generic key (or its left variant, the same member) is in the
\* modifier set; a right variant alone sets no flag.
C9_FlagsOfGenericMembers ==
    Handling /\ sent.synthetic =>
        event.flags = SumSet({ MaskOfFamily(f) : f \in
            { g \in Families : sent.modifiers \cap TestedNames(g) # {} } })

\* An event was encoded with alt_r and shift_l held and has the shift flag
\* only.
C9_Witness ==
    /\ Handling /\ sent.synthetic
    /\ sent.modifiers = {"alt_r", "shift_l"}
    /\ event.flags = kCGEventFlagMaskShift

\* The places of a thread inside the with block of Controller._handle.
Inside == {"encode", "post", "exit"}

\* C10: Controller._handle reads the modifier set, encodes and posts inside
\* one critical section on the modifier lock: at most one thread is inside
\* it and that thread holds the lock, the set a thread encodes from is still
\* the controller's set until it has posted, and the flags of every posted
\* event are those of the controller's modifier set at the moment of the
\* post.
C10_PostInsideCriticalSection ==
    /\ \A t, u \in Threads :
          tpc[t] \in Inside /\ tpc[u] \in Inside => t = u
    /\ \A t \in Threads : (tpc[t] \in Inside) <=> (lock = t)
    /\ \A t \in Threads :
          tpc[t] \in {"encode", "post"} => frame[t].modifiers = modifiers
    /\ \A i \in DOMAIN queue : queue[i].flags = EventFlags(queue[i].held)

\* A thread has posted its press of shift and waits for the lock with its
\* next call, while the other thread, inside the with block, is about to post
\* a character event carrying the shift flag.
C10_Witness ==
    \E t, u \in Threads :
        /\ t # u
        /\ Len(queue) = 1
        /\ queue[1].thread = u
        /\ queue[1].flags = kCGEventFlagMaskShift
        /\ tpc[u] = "handle"
        /\ tpc[t] = "post"
        /\ lock = t
        /\ frame[t].key.tag = "KeyCode"
        /\ frame[t].event.flags = kCGEventFlagMaskShift

\* C11: Listener._context is not None only while the run loop runs inside
\* _run: it is None before the listener runs, None once the run loop has been
\* left, by a return or by an exception, and if acquiring the context raises
\* the handle stays None and the run loop is never entered: no event is ever
\* handled.
C11_ContextOnlyWhileRunning ==
    /\ _context # NoContext => rpc = "running"
    /\ rpc \in {"created", "acquired", "aborted", "returned", "raised"}
          => _context = NoContext
    /\ rpc = "running" => _context = Context
    /\ rpc \in {"created", "acquired", "aborted"} =>
          /\ pc = "idle"
          /\ event = NoEvent
          /\ _flags = 0
          /\ last_allowed = 0
          /\ ~_is_caps_lock_on

\* The run loop handled events and was then left by an exception: the
\* handle is None again.
C11_Witness ==
    /\ rpc = "raised"
    /\ _context = NoContext
    /\ _flags # 0
    /\ _is_caps_lock_on

\* An event whose conversion does not raise is being handled.
Converted == Handling /\ ~event.bad

\* The (virtual key, is-media) pair _event_to_key looks up.
PairOf(e) == <<e.vk, IF e.type = NSSystemDefined THEN "True" ELSE "None">>

\* The character resolution applies: the control symbol or the decoded text.
HasCharacter(e) ==
    \/ e.chars \in {"\t", "\n", "\r", "\f"} /\ e.vk \in DOMAIN SYMBOLS
          /\ (e.flags \div kCGEventFlagMaskControl) % 2 = 1
    \/ e.chars # ""

\* C12: _event_to_key resolves by first match in the order caps lock edge,
\* special key table on (virtual key, is-media), character resolution,
\* virtual key only; key-down and key-up events report the resolved key; an
\* event with virtual key 0x31 and text ' ' is Key.space; a system-defined
\* event meeting the edge condition is handled as caps lock (its release)
\* even when its payload is a valid media key event.
C12_ResolutionOrder ==
    Converted =>
        /\ EdgeCondition(event, entry.flags, entry.latch) =>
              /\ _event_to_key(event, entry.flags, entry.latch)
                    = Key["caps_lock"]
              /\ out.call = [cb |-> "on_release", key |-> Key["caps_lock"]]
        /\ /\ ~EdgeCondition(event, entry.flags, entry.latch)
           /\ PairOf(event) \in DOMAIN _SPECIAL_KEYS
           => _event_to_key(event, entry.flags, entry.latch)
                 = _SPECIAL_KEYS[PairOf(event)]
        /\ /\ ~EdgeCondition(event, entry.flags, entry.latch)
           /\ PairOf(event) \notin DOMAIN _SPECIAL_KEYS
           => IF HasCharacter(event)
              THEN /\ _event_to_key(event, entry.flags, entry.latch).tag
                         = "KeyCode"
                   /\ _event_to_key(event, entry.flags, entry.latch).char
                         # NoChar
              ELSE _event_to_key(event, entry.flags, entry.latch)
                      = AsKey(from_vk(event.vk))
        /\ event.type \in {kCGEventKeyDown, kCGEventKeyUp} =>
              out.call.key = _event_to_key(event, entry.flags, entry.latch)
        /\ /\ event.type \in {kCGEventKeyDown, kCGEventKeyUp}
           /\ event.vk = 49 /\ event.chars = " "
           => out.call.key = Key["space"]

\* A system-defined event with the media subtype and the payload of a press
\* of media_play_pause met the edge condition and was reported as the
\* release of caps lock.
C12_Witness ==
    /\ Converted
    /\ event.type = NSSystemDefined
    /\ event.subtype = kSystemDefinedEventMediaKeysSubtype
    /\ event.data1 = NX_KEYTYPE_PLAY * 65536 + 10 * 256
    /\ EdgeCondition(event, entry.flags, entry.latch)
    /\ out.call = [cb |-> "on_release", key |-> Key["caps_lock"]]

\* A flags-changed event resolved to a key of the modifier table was
\* reported.
ModifierReported ==
    /\ Converted
    /\ event.type = kCGEventFlagsChanged
    /\ out.call.cb # "none"
    /\ out.call.key.tag = "Key"
    /\ out.call.key.name \in DOMAIN _MODIFIER_FLAGS

\* The keyboard event of a key with the given virtual key, no modifiers and
\* no mapping.
EchoOf(vk, is_press) ==
    [type |-> IF is_press THEN kCGEventKeyDown ELSE kCGEventKeyUp,
     vk |-> vk, flags |-> 0, subtype |-> 0, data1 |-> 0, chars |-> NoChar,
     bad |-> FALSE]

\* C13: for a flags-changed event resolved to a key of the modifier table,
\* a callback that returns without requesting suppression leads to exactly
\* one posted event, synthesized from the key with no modifiers and no
\* mapping and with the sense reported, and the event's flags are left; a
\* callback that requests suppression leads to no post and the event's flags
\* overwritten with _flags.  (A callback that raises leads to neither.)
C13_EchoOrRestore ==
    ModifierReported =>
        /\ cb_return.t # "raise" /\ ~(cb_return.v = 2) =>
              /\ out.posted =
                    << EchoOf(out.call.key.vk, out.call.cb = "on_press") >>
              /\ out.event_flags = event.flags
              /\ ~out.result
        /\ cb_return.t # "raise" /\ cb_return.v = 2 =>
              /\ out.posted = << >>
              /\ out.event_flags = entry.flags
              /\ out.result
        /\ cb_return.t = "raise" =>
              /\ out.posted = << >>
              /\ out.event_flags = event.flags

\* The release of the right shift key with control still held was reported
\* and not suppressed: one key-up event of virtual key 0x3C was posted.
C13_Witness ==
    /\ ModifierReported
    /\ out.call = [cb |-> "on_release", key |-> Key["shift_r"]]
    /\ cb_return = [t |-> "bool", v |-> 1]
    /\ event.flags = kCGEventFlagMaskControl
    /\ out.posted = << EchoOf(60, FALSE) >>

\* A flags-changed event resolved to no key, or to a key that is neither
\* caps lock nor in the modifier table.
NotOurs ==
    /\ Handling
    /\ event.type = kCGEventFlagsChanged
    /\ \/ event.bad
       \/ /\ PairOf(event) \notin DOMAIN _SPECIAL_KEYS
       \/ /\ PairOf(event) \in DOMAIN _SPECIAL_KEYS
          /\ _SPECIAL_KEYS[PairOf(event)].name
                \notin DOMAIN _MODIFIER_FLAGS \cup {"caps_lock"}

\* C14: for a flags-changed event whose key is not caps lock and has no
\* entry in the modifier table (a null key included), _handle returns False,
\* invokes no callback, posts no event and leaves the event's flags.
C14_NotHandled ==
    NotOurs =>
        /\ ~out.result
        /\ out.call = NoCall
        /\ cb_return = NotCalled
        /\ ~out.raised
        /\ out.posted = << >>
        /\ out.event_flags = event.flags

\* A flags-changed event of virtual key 0, which is no named key, was not
\* handled while the snapshot differed from its flags.
C14_Witness ==
    /\ NotOurs /\ ~event.bad
    /\ event.vk = 0
    /\ event.flags # entry.flags
    /\ out.call = NoCall
    /\ ~out.result

\* C15 as stated: the keyboard event encoded for a non-media key carries the
\* key's own virtual key whenever it has one, 0 included, whatever the
\* mapping; the mapping's virtual key when it has none and the mapping knows
\* its character; and only when neither gives a virtual key the placeholder 0
\* with the key's character as unicode string.
C15_OwnVirtualKeyFirst ==
    Handling /\ sent.synthetic /\ sent.key.is_media # "True" =>
        /\ sent.encoded.type =
              (IF sent.is_pressed THEN kCGEventKeyDown ELSE kCGEventKeyUp)
        /\ sent.key.vk # NoVk =>
              /\ sent.encoded.vk = sent.key.vk
              /\ sent.encoded.chars = NoChar
        /\ sent.key.vk = NoVk /\ sent.key.char \in DOMAIN LayoutMapping =>
              /\ sent.encoded.vk = LayoutMapping[sent.key.char]
              /\ sent.encoded.chars = NoChar
        /\ sent.key.vk = NoVk /\ sent.key.char \notin DOMAIN LayoutMapping =>
              /\ sent.encoded.vk = 0
              /\ sent.encoded.chars = sent.key.char

\* An event matched neither by the caps lock check nor by the special key
\* table.
Unmatched ==
    /\ Converted
    /\ ~EdgeCondition(event, entry.flags, entry.latch)
    /\ PairOf(event) \notin DOMAIN _SPECIAL_KEYS

\* A key code as the listener reports it.
Reported(vk, char) ==
    [tag |-> "KeyCode", name |-> "", vk |-> vk, char |-> char,
     is_media |-> "None"]

\* C16: for an event matched neither by the caps lock check nor by the
\* special key table: if the decoded text is not printable, the virtual key
\* is in the control symbol table and the control flag is set, the key is the
\* character SYMBOLS[vk] with the virtual key; otherwise, if the text is not
\* empty, the key is the text with the virtual key; otherwise the key is the
\* virtual key with no character.  Key events report that key.
C16_CharacterResolution ==
    Unmatched =>
        /\ _event_to_key(event, entry.flags, entry.latch) =
              (IF /\ event.chars \in {"\t", "\n", "\r", "\f"}
                  /\ event.vk \in DOMAIN SYMBOLS
                  /\ (event.flags \div kCGEventFlagMaskControl) % 2 = 1
               THEN Reported(event.vk, SYMBOLS[event.vk])
               ELSE IF event.chars # ""
               THEN Reported(event.vk, event.chars)
               ELSE Reported(event.vk, NoChar))
        /\ event.type \in {kCGEventKeyDown, kCGEventKeyUp} =>
              out.call.key = _event_to_key(event, entry.flags, entry.latch)

\* A key-down event of virtual key 0 with a control character as text and
\* control held, shift not held, was reported as the character a.
C16_Witness ==
    /\ Unmatched
    /\ event.type = kCGEventKeyDown
    /\ event.vk = 0
    /\ event.chars = "\t"
    /\ event.flags = kCGEventFlagMaskControl
    /\ out.call = [cb |-> "on_press", key |-> Reported(0, "a")]

\* C17: the sense of a modifier event is decided from the event's flags
\* alone: a flags-changed event of a modifier M is reported as on_press(M)
\* whenever M's family bit is set in its flags, also when the bit was set in
\* the snapshot already, and as on_release(M) whenever the bit is clear.  So
\* the release of right shift with left shift still held is reported as a
\* press of right shift.
C17_SenseFromEventFlagsAlone ==
    ModifierReported =>
        /\ out.call.key.vk = event.vk
        /\ out.call.cb =
              (IF (event.flags \div FamilyMaskOfVk(event.vk)) % 2 = 1
               THEN "on_press" ELSE "on_release")
        /\ /\ event.vk = 60
           /\ (entry.flags \div kCGEventFlagMaskShift) % 2 = 1
           /\ (event.flags \div kCGEventFlagMaskShift) % 2 = 1
           => out.call = [cb |-> "on_press", key |-> Key["shift_r"]]

\* With the shift bit in the snapshot from the shift events before, an event
\* of the right shift key that still carries the shift bit, as its release
\* does while left shift is held, was reported as a press of right shift.
C17_Witness ==
    /\ ModifierReported
    /\ event.vk = 60
    /\ entry.flags = kCGEventFlagMaskShift
    /\ event.flags = kCGEventFlagMaskShift
    /\ out.call = [cb |-> "on_press", key |-> Key["shift_r"]]

\* The flags-changed event of the caps lock key is being handled.
CapsLockPress ==
    /\ Converted
    /\ event.type = kCGEventFlagsChanged
    /\ event.vk = 57

\* C18: _is_caps_lock_on is False after construction and is written only
\* while a flags-changed event resolved to caps lock is handled, where it
\* becomes bit 16 of the event's flags whether the callback's return value
\* suppresses the event or not; any other event leaves it.  A suppressed caps
\* lock press updates the latch while _flags stays.  (If the callback raises
\* the assignment is not reached.)
C18_LatchWrittenByCapsLockPress ==
    /\ rpc \in {"created", "acquired", "aborted"} => ~_is_caps_lock_on
    /\ Handling =>
          /\ CapsLockPress /\ cb_return.t # "raise" =>
                /\ out.call = [cb |-> "on_press", key |-> Key["caps_lock"]]
                /\ _is_caps_lock_on = ((event.flags \div 65536) % 2 = 1)
                /\ cb_return.v = 2 => _flags = entry.flags
                /\ ~(cb_return.v = 2) => _flags = event.flags
          /\ ~CapsLockPress \/ cb_return.t = "raise" =>
                _is_caps_lock_on = entry.latch

\* A suppressed caps lock press set the latch while the snapshot stayed at
\* its old value.
C18_Witness ==
    /\ Handling /\ CapsLockPress
    /\ cb_return = [t |-> "int", v |-> 2]
    /\ ~entry.latch
    /\ _is_caps_lock_on
    /\ _flags = entry.flags
    /\ _flags # event.flags

\* C19: a key-down, key-up or flags-changed event is never resolved to, nor
\* reported as, a media key, also when its virtual key is a media sub-code;
\* a system-defined event is never reported as a key other than a media key
\* or caps lock, and one with another subtype or an unknown sub-code that is
\* not caps lock invokes no callback.
C19_KeySpaceSeparation ==
    Handling =>
        /\ event.type \in
              {kCGEventKeyDown, kCGEventKeyUp, kCGEventFlagsChanged} =>
              /\ out.call.key.is_media # "True"
              /\ ~event.bad =>
                    _event_to_key(event, entry.flags, entry.latch).is_media
                       # "True"
        /\ event.type = NSSystemDefined =>
              /\ \/ out.call = NoCall
                 \/ out.call.key.tag = "Key" /\ out.call.key.is_media = "True"
                 \/ out.call.key = Key["caps_lock"]
              /\ /\ \/ event.subtype # kSystemDefinedEventMediaKeysSubtype
                    \/ event.data1 \div 65536 \notin
                          {NX_KEYTYPE_PLAY, NX_KEYTYPE_MUTE,
                           NX_KEYTYPE_SOUND_DOWN, NX_KEYTYPE_SOUND_UP,
                           NX_KEYTYPE_NEXT, NX_KEYTYPE_PREVIOUS}
                 /\ event.bad
                       \/ ~EdgeCondition(event, entry.flags, entry.latch)
                 => out.call = NoCall

\* A key-down event whose virtual key is the sub-code of media_volume_up was
\* reported as a key code that is no media key.
C19_Witness ==
    /\ Handling /\ ~event.bad
    /\ event.type = kCGEventKeyDown
    /\ event.vk = NX_KEYTYPE_SOUND_UP
    /\ event.chars = ""
    /\ out.call = [cb |-> "on_press", key |-> Reported(0, NoChar)]

==============================================================================
